---- MODULE Spec2Model ----
(***************************************************************************)
(* Credential lifecycle of the Garmin Connect client for Cloudflare        *)
(* Workers: GarminClient (src/src/garmin-client.ts) and the OAuth1 ->      *)
(* OAuth2 exchange (token-refresh, src/unnamed/part_001).                  *)
(*                                                                         *)
(* Every thread is one call of GarminClient.get/post/put.  A thread takes  *)
(* one step per `await` of the code: everything the code does between two  *)
(* awaits is one atomic action.  Two threads either belong to two          *)
(* invocations (two clients, two in-process caches) or are the two gets    *)
(* joined by Promise.all in get_body_battery (one client).                 *)
(***************************************************************************)
EXTENDS Integers, Sequences, FiniteSets, TLC

\* ------------------------------------------------------------------ bounds
T0 == 1000            \* epoch second of the first state
MaxTicks == 1         \* the clock advances at most this many seconds
MaxCalls == 2         \* calls started in one behaviour
MaxExchanges == 2     \* access tokens the exchange endpoint issues
MaxLen == 2           \* characters of a string given to percentEncode

Threads == {1, 2}

\* --------------------------------------------------------------- constants
SAFETY_MARGIN == 60
CONSUMER_TTL == 86400 \* part_001:17  24 hours, in seconds
Undef == -1           \* a field that is absent from a JSON document

Null == [access_token |-> Undef]          \* oauth2Cache = null
NoEntry == [missing |-> TRUE]             \* KVNamespace.get(...) = null
NoToken == Undef

Fields == {"access_token", "expires_in", "expires_at",
           "refresh_token_expires_in", "refresh_token_expires_at"}

\* ------------------------------------------------------ JavaScript values
Falsy(v) == v = Undef \/ v = 0            \* !v for a number or undefined
Truthy(v) == ~Falsy(v)
\* Relational comparison with undefined converts it to NaN and is false.
Gt(a, b) == a # Undef /\ a > b
Le(a, b) == a # Undef /\ a <= b

\* JSON.stringify drops the fields whose value is undefined.
Stringify(d) == [f \in {g \in Fields : d[g] # Undef} |-> d[f]]
\* Reading a field that the parsed document lacks gives undefined.
Parse(j) == [f \in Fields |-> IF f \in DOMAIN j THEN j[f] ELSE Undef]

Ok(status) == status >= 200 /\ status <= 299      \* Response.ok

\* ----------------------------------------------------------- environment
\* The credential the operator uploaded (scripts/upload-tokens.ts).
Provisioned(exp) ==
    [access_token |-> 0, expires_in |-> 72000, expires_at |-> exp,
     refresh_token_expires_in |-> 2592000,
     refresh_token_expires_at |-> T0 + 2592000]

ProvisionedExpiries == {T0 - 1, T0 + SAFETY_MARGIN, T0 + SAFETY_MARGIN + 1, T0 + 3600}

OAuth1Token == [oauth_token |-> "t1", oauth_token_secret |-> "s1"]
\* The pair served by CONSUMER_URL.
Consumer == [consumer_key |-> "ck", consumer_secret |-> "cs"]
\* A stored consumer pair and the second at which the store drops it.
ConsumerEntry(exp) == [value |-> Consumer, expiration |-> exp]
\* KVNamespace.get on a key written with expirationTtl: the value until the
\* expiration second, null from then on.
KvLive(entry, n) == entry # NoEntry /\ n < entry.expiration

\* Bodies of the exchange endpoint's 2xx answers: the durations and the
\* absolute expiries of the access and of the refresh token, each present or
\* absent; an access token that lives 72000 s, 30 s (stale on arrival) or 0 s.
ExchangeShapes ==
    { <<72000, Undef, 2592000, Undef>>,
      <<72000, T0 + 4000, 2592000, T0 + 2600000>>,
      <<Undef, T0 + 4000, Undef, T0 + 2600000>>,
      <<30, Undef, 2592000, T0 + 2600000>>,
      <<0, Undef, 2592000, Undef>> }

ExchangeStatuses == {200, 401, 503}
ExchangeErrors == {"x1", "x2"}            \* texts of the non-2xx answers
ConsumerStatuses == {200, 403}
ApiStatuses == {200, 204, 401, 403, 500}
ErrorBody == "e1"
Methods == {"GET", "POST", "PUT"}
JsonBodies == {"j1", "j2"}
EmptyBody == ""
\* A GET answer carries a JSON document; POST and PUT may answer with no text.
BodiesOf(m) == IF m = "GET" THEN JsonBodies ELSE JsonBodies \cup {EmptyBody}

VARIABLES
    now,          \* Date.now() / 1000
    kvOAuth2,     \* GARMIN_KV["oauth2_token"], a JSON document or NoEntry
    kvOAuth1,     \* GARMIN_KV["oauth1_token"]
    kvConsumer,   \* GARMIN_KV["oauth_consumer"]
    oauth2Cache,  \* GarminClient.oauth2Cache, per client
    clientOf,     \* the client a thread calls
    pc,           \* the await a thread is suspended at
    method,       \* get, post or put
    tokenJson,    \* getAccessToken: tokenJson
    oauth2,       \* getAccessToken: oauth2
    data,         \* refreshOAuth2Token: data
    token,        \* get/post/put: token, freshToken
    sent,         \* bearer tokens of the data-API requests of the call
    resps,        \* data-API responses of the call
    result,       \* what the call returned or threw
    pendingPut,   \* kv.put("oauth2_token", ...) issued and not yet resolved
    gatLog,       \* what the current getAccessToken call has done
    callLog,      \* what the current call has done
    issued,       \* access tokens issued by the exchange endpoint
    lastWriter,   \* thread of the latest kv.put("oauth2_token", ...)
    callsLeft,
    http,         \* fetch: the latest inbound request and its response
    encIn,        \* percentEncode: str, a sequence of code points
    encOut        \* percentEncode: the returned string

mainVars == <<now, kvOAuth2, kvOAuth1, kvConsumer, oauth2Cache, clientOf, pc,
              method, tokenJson, oauth2, data, token, sent, resps, result,
              pendingPut, gatLog, callLog, issued, lastWriter, callsLeft>>
edgeVars == <<http, encIn, encOut>>
vars == <<mainVars, edgeVars>>

kvVars == <<kvOAuth2, kvOAuth1, kvConsumer>>
localVars == <<tokenJson, oauth2, data>>

\* No tool has returned for the request.
NoToolResult == [pending |-> TRUE]

\* No inbound request yet; no string returned yet.
NoRequest == [request |-> [method |-> "", path |-> "", auth |-> "", rpc |-> ""],
              status |-> 0, served |-> FALSE, tool |-> NoToolResult]
NotEncoded == <<-1>>

NoResult == [kind |-> "none", type |-> "", status |-> 0, body |-> ""]
Returned(b) == [kind |-> "ok", type |-> "", status |-> 0, body |-> b]
ReturnedNull == [kind |-> "null", type |-> "", status |-> 0, body |-> ""]
Thrown(ty, st, b) == [kind |-> "error", type |-> ty, status |-> st, body |-> b]

\* entryCache: this.oauth2Cache on entry, cacheFresh: it was fresh by the clock
\* on entry; readStale, readFresh: the stored credential was stale, fresh by
\* the clock when it was read; reads, writes: store accesses; cons, exch:
\* requests to CONSUMER_URL and EXCHANGE_URL; resp, respNow: the 2xx body of
\* the exchange and the second it arrived; ret: a token was returned;
\* exStatus, exText: status and text of the exchange answer; consLooked,
\* consLive: the consumer lookup resolved, and the store held an unexpired
\* pair at that second; consStatus: status of the CONSUMER_URL answer.
NewGatLog ==
    [entryCache |-> Null, cacheFresh |-> FALSE, readStale |-> FALSE,
     readFresh |-> FALSE, reads |-> 0, exch |-> 0, cons |-> 0, writes |-> 0,
     resp |-> Null, respNow |-> 0, ret |-> FALSE, exStatus |-> 0,
     exText |-> "", consLooked |-> FALSE, consLive |-> FALSE,
     consStatus |-> 0]
NewCallLog == [gats |-> 0, clears |-> 0]

Construction ==
    /\ now = T0
    /\ kvOAuth2 \in {NoEntry} \cup {Stringify(Provisioned(e)) : e \in ProvisionedExpiries}
    /\ kvOAuth1 \in {NoEntry, OAuth1Token}
    /\ kvConsumer \in {NoEntry, ConsumerEntry(T0 + 1)}
    /\ oauth2Cache = [c \in Threads |-> Null]
    /\ clientOf = [t \in Threads |-> t]
    /\ pc = [t \in Threads |-> "idle"]
    /\ method = [t \in Threads |-> "GET"]
    /\ tokenJson = [t \in Threads |-> NoEntry]
    /\ oauth2 = [t \in Threads |-> Null]
    /\ data = [t \in Threads |-> Null]
    /\ token = [t \in Threads |-> NoToken]
    /\ sent = [t \in Threads |-> << >>]
    /\ resps = [t \in Threads |-> << >>]
    /\ result = [t \in Threads |-> NoResult]
    /\ pendingPut = [t \in Threads |-> FALSE]
    /\ gatLog = [t \in Threads |-> NewGatLog]
    /\ callLog = [t \in Threads |-> NewCallLog]
    /\ issued = 0
    /\ lastWriter = 0
    /\ callsLeft = MaxCalls

Init ==
    /\ Construction
    /\ http = NoRequest
    /\ encIn = << >>
    /\ encOut = NotEncoded

\* ------------------------------------------------------- getAccessToken
\* Mutant of CacheFresh: the comparison the wrong way round.
CacheFreshInverted(cache, n) == cache # Null /\ Le(cache.expires_at, n + SAFETY_MARGIN)

\* garmin-client.ts:29  this.oauth2Cache && this.oauth2Cache.expires_at > now + 60
CacheFresh(cache, n) == cache # Null /\ Gt(cache.expires_at, n + SAFETY_MARGIN)

\* Mutant of Missing: the null test left out.
MissingNever(json) == FALSE

\* garmin-client.ts:36 and 49  !tokenJson, !oauth1Json
Missing(json) == json = NoEntry

\* Mutant of IsStale: every stored credential is refreshed.
IsStaleAlways(cred, n) == TRUE

\* Mutant of IsStale: < for <=, so that expires_at = now + 60 passes as fresh.
IsStaleStrict(cred, n) == cred.expires_at # Undef /\ cred.expires_at < n + SAFETY_MARGIN

\* garmin-client.ts:46  oauth2.expires_at <= now + 60
IsStale(cred, n) == Le(cred.expires_at, n + SAFETY_MARGIN)

\* getAccessToken returns tok to get/post/put, which sends the request at once.
GatReturn(t, tok) ==
    /\ token' = [token EXCEPT ![t] = tok]
    /\ sent' = [sent EXCEPT ![t] = Append(@, tok)]
    /\ pc' = [pc EXCEPT ![t] = "fetch_api"]

\* Lines 25-35: the cache test, up to the first await.  cache is the value of
\* this.oauth2Cache when the function is entered.
GatEntry(t, cache, sentSoFar) ==
    /\ gatLog' = [gatLog EXCEPT ![t] =
                    [NewGatLog EXCEPT !.entryCache = cache,
                        !.cacheFresh = cache # Null /\ cache.expires_at # Undef
                                       /\ cache.expires_at > now + SAFETY_MARGIN,
                        !.ret = CacheFresh(cache, now)]]
    /\ IF CacheFresh(cache, now)
          THEN /\ token' = [token EXCEPT ![t] = cache.access_token]
               /\ sent' = [sent EXCEPT ![t] = Append(sentSoFar, cache.access_token)]
               /\ pc' = [pc EXCEPT ![t] = "fetch_api"]
          ELSE /\ token' = [token EXCEPT ![t] = NoToken]
               /\ sent' = [sent EXCEPT ![t] = sentSoFar]
               /\ pc' = [pc EXCEPT ![t] = "kv_get_oauth2"]
    /\ tokenJson' = [tokenJson EXCEPT ![t] = NoEntry]
    /\ oauth2' = [oauth2 EXCEPT ![t] = Null]
    /\ data' = [data EXCEPT ![t] = Null]

Busy(t) == pc[t] \notin {"idle", "done"}

\* A call of get, post or put on the thread's client, up to its first await.
StartCall(t, m) ==
    /\ ~Busy(t)
    /\ \A u \in Threads : clientOf[u] = clientOf[t] => ~Busy(u)
    /\ callsLeft > 0
    /\ callsLeft' = callsLeft - 1
    /\ method' = [method EXCEPT ![t] = m]
    /\ resps' = [resps EXCEPT ![t] = << >>]
    /\ result' = [result EXCEPT ![t] = NoResult]
    /\ callLog' = [callLog EXCEPT ![t] = [NewCallLog EXCEPT !.gats = 1]]
    /\ GatEntry(t, oauth2Cache[clientOf[t]], << >>)
    /\ UNCHANGED <<edgeVars, now, kvVars, oauth2Cache, clientOf, pendingPut, issued, lastWriter>>

\* The call fails: the error propagates out of get/post/put.
Throw(t, ty, st, b) ==
    /\ pc' = [pc EXCEPT ![t] = "done"]
    /\ result' = [result EXCEPT ![t] = Thrown(ty, st, b)]

\* Lines 35-46 and 60-61: await GARMIN_KV.get("oauth2_token") resolves.
KvGetOAuth2(t) ==
    /\ pc[t] = "kv_get_oauth2"
    /\ tokenJson' = [tokenJson EXCEPT ![t] = kvOAuth2]
    /\ IF Missing(kvOAuth2)
          THEN /\ Throw(t, "CredentialsMissing", 0, "oauth2")
               /\ gatLog' = [gatLog EXCEPT ![t].reads = @ + 1]
               /\ UNCHANGED <<oauth2, oauth2Cache, token, sent>>
          ELSE LET o == Parse(kvOAuth2)
                   seen == [gatLog EXCEPT
                              ![t].reads = @ + 1,
                              ![t].readStale = o.expires_at # Undef
                                  /\ o.expires_at <= now + SAFETY_MARGIN,
                              ![t].readFresh = o.expires_at # Undef
                                  /\ o.expires_at > now + SAFETY_MARGIN] IN
               /\ oauth2' = [oauth2 EXCEPT ![t] = o]
               /\ IF IsStale(o, now)
                     THEN /\ pc' = [pc EXCEPT ![t] = "kv_get_oauth1"]
                          /\ gatLog' = seen
                          /\ UNCHANGED <<oauth2Cache, token, sent, result>>
                     ELSE /\ oauth2Cache' = [oauth2Cache EXCEPT ![clientOf[t]] = o]
                          /\ gatLog' = [seen EXCEPT ![t].ret = TRUE]
                          /\ GatReturn(t, o.access_token)
                          /\ UNCHANGED result
    /\ UNCHANGED <<edgeVars, now, kvVars, clientOf, method, data, resps, pendingPut,
                   callLog, issued, lastWriter, callsLeft>>

\* Lines 48-57: await GARMIN_KV.get("oauth1_token") resolves; on a hit
\* refreshOAuth2Token and getConsumer run up to kv.get(CONSUMER_KV_KEY).
KvGetOAuth1(t) ==
    /\ pc[t] = "kv_get_oauth1"
    /\ gatLog' = [gatLog EXCEPT ![t].reads = @ + 1]
    /\ IF Missing(kvOAuth1)
          THEN Throw(t, "CredentialsMissing", 0, "oauth1")
          ELSE /\ pc' = [pc EXCEPT ![t] = "kv_get_consumer"]
               /\ UNCHANGED result
    /\ UNCHANGED <<edgeVars, now, kvVars, oauth2Cache, clientOf, method, localVars, token,
                   sent, resps, pendingPut, callLog, issued, lastWriter, callsLeft>>

\* ---------------------------------------------------------- getConsumer
\* part_001:95-99: await kv.get(CONSUMER_KV_KEY, "json") resolves.  A hit
\* returns to refreshOAuth2Token, which starts buildOAuth1Header; a miss
\* sends the fetch of CONSUMER_URL.
KvGetConsumer(t) ==
    /\ pc[t] = "kv_get_consumer"
    /\ gatLog' = [gatLog EXCEPT ![t].reads = @ + 1, ![t].consLooked = TRUE,
                                 ![t].consLive = (kvConsumer # NoEntry /\
                                                  now < kvConsumer.expiration)]
    /\ pc' = [pc EXCEPT ![t] = IF KvLive(kvConsumer, now) THEN "sign"
                                                          ELSE "fetch_consumer"]
    /\ UNCHANGED <<edgeVars, now, kvVars, oauth2Cache, clientOf, method, localVars, token,
                   sent, resps, result, pendingPut, callLog, issued, lastWriter,
                   callsLeft>>

\* Mutant of FetchConsumer: a failed fetch of CONSUMER_URL is sent again.
FetchConsumerRetrying(t, status) ==
    /\ pc[t] = "fetch_consumer"
    /\ gatLog' = [gatLog EXCEPT ![t].cons = @ + 1, ![t].consStatus = status]
    /\ pc' = [pc EXCEPT ![t] = IF Ok(status) THEN "kv_put_consumer"
                                             ELSE "fetch_consumer"]
    /\ UNCHANGED <<edgeVars, now, kvVars, oauth2Cache, clientOf, method, localVars, token,
                   sent, resps, result, pendingPut, callLog, issued, lastWriter,
                   callsLeft>>

\* part_001:99-108: the answer of CONSUMER_URL arrives.
FetchConsumer(t, status) ==
    /\ pc[t] = "fetch_consumer"
    /\ gatLog' = [gatLog EXCEPT ![t].cons = @ + 1, ![t].consStatus = status]
    /\ IF ~Ok(status)
          THEN Throw(t, "UpstreamUnavailable", status, "")
          ELSE /\ pc' = [pc EXCEPT ![t] = "kv_put_consumer"]
               /\ UNCHANGED result
    /\ UNCHANGED <<edgeVars, now, kvVars, oauth2Cache, clientOf, method, localVars, token,
                   sent, resps, pendingPut, callLog, issued, lastWriter, callsLeft>>

\* Mutant of KvPutConsumer: the pair is stored for one hour.
KvPutConsumerOneHour(t) ==
    /\ pc[t] = "kv_put_consumer"
    /\ kvConsumer' = ConsumerEntry(now + 3600)
    /\ gatLog' = [gatLog EXCEPT ![t].writes = @ + 1]
    /\ pc' = [pc EXCEPT ![t] = "sign"]
    /\ UNCHANGED <<edgeVars, now, kvOAuth2, kvOAuth1, oauth2Cache, clientOf, method,
                   localVars, token, sent, resps, result, pendingPut, callLog,
                   issued, lastWriter, callsLeft>>

\* Mutant of KvPutConsumer: the pair is written under the key of the OAuth1
\* credential.
KvPutConsumerWrongKey(t) ==
    /\ pc[t] = "kv_put_consumer"
    /\ kvOAuth1' = ConsumerEntry(now + CONSUMER_TTL)
    /\ gatLog' = [gatLog EXCEPT ![t].writes = @ + 1]
    /\ pc' = [pc EXCEPT ![t] = "sign"]
    /\ UNCHANGED <<edgeVars, now, kvOAuth2, kvConsumer, oauth2Cache, clientOf, method,
                   localVars, token, sent, resps, result, pendingPut, callLog,
                   issued, lastWriter, callsLeft>>

\* part_001:106-110 and 122: await kv.put(CONSUMER_KV_KEY, ...) resolves.
KvPutConsumer(t) ==
    /\ pc[t] = "kv_put_consumer"
    /\ kvConsumer' = ConsumerEntry(now + CONSUMER_TTL)
    /\ gatLog' = [gatLog EXCEPT ![t].writes = @ + 1]
    /\ pc' = [pc EXCEPT ![t] = "sign"]
    /\ UNCHANGED <<edgeVars, now, kvOAuth2, kvOAuth1, oauth2Cache, clientOf, method,
                   localVars, token, sent, resps, result, pendingPut, callLog,
                   issued, lastWriter, callsLeft>>

\* part_001:49-91 and 124: the awaits of hmacSha1 resolve, the header is
\* built and the POST to EXCHANGE_URL is sent.
BuildOAuth1Header(t) ==
    /\ pc[t] = "sign"
    /\ pc' = [pc EXCEPT ![t] = "fetch_exchange"]
    /\ UNCHANGED <<edgeVars, now, kvVars, oauth2Cache, clientOf, method, localVars, token,
                   sent, resps, result, pendingPut, gatLog, callLog, issued,
                   lastWriter, callsLeft>>

\* --------------------------------------------------- refreshOAuth2Token
\* part_001:142-149: the absolute expiry timestamps, computed at second n.
Normalize(d, n) ==
    LET d1 == IF Falsy(d.expires_at) /\ Truthy(d.expires_in)
                THEN [d EXCEPT !.expires_at = n + d.expires_in] ELSE d
    IN  IF Falsy(d1.refresh_token_expires_at) /\ Truthy(d1.refresh_token_expires_in)
          THEN [d1 EXCEPT !.refresh_token_expires_at = n + d1.refresh_token_expires_in]
          ELSE d1

\* The 2xx body of the exchange endpoint with access token a and shape sh.
ExchangeBody(a, sh) ==
    [access_token |-> a, expires_in |-> sh[1], expires_at |-> sh[2],
     refresh_token_expires_in |-> sh[3], refresh_token_expires_at |-> sh[4]]

\* Mutant of ExchangeError: the error names neither status nor text.
ExchangeErrorBare(status, text) == Thrown("ExchangeRejected", 0, "")

\* part_001:133-138: the error of a non-2xx exchange answer carries the
\* status and the text of the answer.
ExchangeError(status, text) == Thrown("ExchangeRejected", status, text)

\* The answers EXCHANGE_URL can give with the given status to the request
\* for access token a: the parsed JSON of a 2xx answer, the text of another.
ExchangeAnswers(status, a, shapes, texts) ==
    IF Ok(status) THEN {ExchangeBody(a, sh) : sh \in shapes} ELSE texts

\* part_001:124-152: the answer of EXCHANGE_URL arrives.
FetchExchange(t, status, body) ==
    /\ pc[t] = "fetch_exchange"
    /\ gatLog' = [gatLog EXCEPT ![t].exch = @ + 1,
                                 ![t].resp = IF Ok(status) THEN body ELSE Null,
                                 ![t].respNow = now,
                                 ![t].exStatus = status,
                                 ![t].exText = IF Ok(status) THEN "" ELSE body]
    /\ IF ~Ok(status)
          THEN /\ pc' = [pc EXCEPT ![t] = "done"]
               /\ result' = [result EXCEPT ![t] = ExchangeError(status, body)]
               /\ UNCHANGED <<data, pendingPut, issued>>
          ELSE /\ issued < MaxExchanges
               /\ issued' = issued + 1
               /\ data' = [data EXCEPT ![t] = Normalize(body, now)]
               /\ pendingPut' = [pendingPut EXCEPT ![t] = TRUE]
               /\ pc' = [pc EXCEPT ![t] = "kv_put_oauth2"]
               /\ UNCHANGED result
    /\ UNCHANGED <<edgeVars, now, kvVars, oauth2Cache, clientOf, method, tokenJson, oauth2,
                   token, sent, resps, callLog, lastWriter, callsLeft>>

\* Mutant of KvPutOAuth2: kv.put is not awaited; data is returned while the
\* write is still pending.
KvPutOAuth2Detached(t) ==
    /\ pc[t] = "kv_put_oauth2"
    /\ oauth2' = [oauth2 EXCEPT ![t] = data[t]]
    /\ oauth2Cache' = [oauth2Cache EXCEPT ![clientOf[t]] = data[t]]
    /\ gatLog' = [gatLog EXCEPT ![t].ret = TRUE]
    /\ GatReturn(t, data[t].access_token)
    /\ UNCHANGED <<edgeVars, now, kvVars, clientOf, method, tokenJson, data, resps, result,
                   pendingPut, callLog, issued, lastWriter, callsLeft>>

\* Mutant of KvPutOAuth2: the write is dropped when the stored credential is
\* no longer the one this call has read.
KvPutOAuth2IfUnchanged(t) ==
    /\ pc[t] = "kv_put_oauth2"
    /\ kvOAuth2' = IF kvOAuth2 = tokenJson[t] THEN Stringify(data[t]) ELSE kvOAuth2
    /\ pendingPut' = [pendingPut EXCEPT ![t] = FALSE]
    /\ lastWriter' = t
    /\ oauth2' = [oauth2 EXCEPT ![t] = data[t]]
    /\ oauth2Cache' = [oauth2Cache EXCEPT ![clientOf[t]] = data[t]]
    /\ gatLog' = [gatLog EXCEPT ![t].writes = @ + 1, ![t].ret = TRUE]
    /\ GatReturn(t, data[t].access_token)
    /\ UNCHANGED <<edgeVars, now, kvOAuth1, kvConsumer, clientOf, method, tokenJson, data,
                   resps, result, callLog, issued, callsLeft>>

\* Mutant of KvPutOAuth2: only the access token of the stored document is
\* replaced, the expiries of the previous credential stay.
KvPutOAuth2TokenOnly(t) ==
    /\ pc[t] = "kv_put_oauth2"
    /\ kvOAuth2' = [kvOAuth2 EXCEPT !.access_token = data[t].access_token]
    /\ pendingPut' = [pendingPut EXCEPT ![t] = FALSE]
    /\ lastWriter' = t
    /\ oauth2' = [oauth2 EXCEPT ![t] = data[t]]
    /\ oauth2Cache' = [oauth2Cache EXCEPT ![clientOf[t]] = data[t]]
    /\ gatLog' = [gatLog EXCEPT ![t].writes = @ + 1, ![t].ret = TRUE]
    /\ GatReturn(t, data[t].access_token)
    /\ UNCHANGED <<edgeVars, now, kvOAuth1, kvConsumer, clientOf, method, tokenJson, data,
                   resps, result, callLog, issued, callsLeft>>

\* part_001:152-154 and garmin-client.ts:57-61: await kv.put("oauth2_token",
\* JSON.stringify(data)) resolves, data is returned, cached, and its access
\* token is returned.
KvPutOAuth2(t) ==
    /\ pc[t] = "kv_put_oauth2"
    /\ kvOAuth2' = Stringify(data[t])
    /\ pendingPut' = [pendingPut EXCEPT ![t] = FALSE]
    /\ lastWriter' = t
    /\ oauth2' = [oauth2 EXCEPT ![t] = data[t]]
    /\ oauth2Cache' = [oauth2Cache EXCEPT ![clientOf[t]] = data[t]]
    /\ gatLog' = [gatLog EXCEPT ![t].writes = @ + 1, ![t].ret = TRUE]
    /\ GatReturn(t, data[t].access_token)
    /\ UNCHANGED <<edgeVars, now, kvOAuth1, kvConsumer, clientOf, method, tokenJson, data,
                   resps, result, callLog, issued, callsLeft>>

\* ------------------------------------------------------ get / post / put
AuthFailure(status) == status = 401 \/ status = 403

\* Mutant of ShouldRetry: every 401 or 403 of a get is retried.
ShouldRetryAgain(m, attempt, status) == m = "GET" /\ AuthFailure(status)

\* garmin-client.ts:88: the first answer of a get is retried on 401 and 403;
\* post and put (lines 129-133 and 156-160) have no such branch.
\* Mutant of ShouldRetry: a GET is retried after any failed first response.
ShouldRetryAnyError(m, attempt, status) ==
    m = "GET" /\ attempt = 1 /\ ~Ok(status)

ShouldRetry(m, attempt, status) == m = "GET" /\ attempt = 1 /\ AuthFailure(status)

\* Mutant of ClearedCache: the cache is left as it is.
KeptCache(cache) == cache

\* garmin-client.ts:90  this.oauth2Cache = null
ClearedCache(cache) == Null

\* Mutant of Outcome: no test for 204; the empty answer of a get is parsed.
OutcomeParsing204(m, r) ==
    IF ~Ok(r.status) THEN Thrown("ApiError", r.status, r.body)
    ELSE IF m = "GET" /\ r.status = 204 THEN Thrown("SyntaxError", 0, "")
    ELSE IF m # "GET" /\ (r.body = EmptyBody \/ r.status = 204) THEN ReturnedNull
    ELSE Returned(r.body)

\* What the call returns or throws for a final answer r.
\* get: lines 86, 98-102, 105-109; post: 129-136; put: 156-163.
Outcome(m, r) ==
    IF r.status = 204 THEN ReturnedNull
    ELSE IF ~Ok(r.status) THEN Thrown("ApiError", r.status, r.body)
    ELSE IF m # "GET" /\ r.body = EmptyBody THEN ReturnedNull
    ELSE Returned(r.body)

\* The answer of the data API to the request of thread t arrives.
ApiResponse(t, r) ==
    /\ pc[t] = "fetch_api"
    /\ r.status = 200 => r.body \in BodiesOf(method[t])
    /\ resps' = [resps EXCEPT ![t] = Append(@, r)]
    /\ IF ShouldRetry(method[t], Len(resps[t]) + 1, r.status)
          THEN LET cleared == ClearedCache(oauth2Cache[clientOf[t]]) IN
               /\ oauth2Cache' = [oauth2Cache EXCEPT ![clientOf[t]] = cleared]
               /\ callLog' = [callLog EXCEPT ![t].clears = @ + 1, ![t].gats = @ + 1]
               /\ GatEntry(t, cleared, sent[t])
               /\ UNCHANGED result
          ELSE /\ pc' = [pc EXCEPT ![t] = "done"]
               /\ result' = [result EXCEPT ![t] = Outcome(method[t], r)]
               /\ UNCHANGED <<oauth2Cache, callLog, gatLog, token, sent, localVars>>
    /\ UNCHANGED <<edgeVars, now, kvVars, clientOf, method, pendingPut, issued, lastWriter,
                   callsLeft>>

\* The answers of the data API: a 2xx with a document or no text, a 204,
\* and the failures with their error text.
ApiResponses ==
    [status : {200}, body : JsonBodies \cup {EmptyBody}]
      \cup [status : {204}, body : {EmptyBody}]
      \cup [status : ApiStatuses \ {200, 204}, body : {ErrorBody}]

\* ------------------------------------------------------------ tool layer
\* tools.ts:62-68: get_body_battery starts two gets on one client, each up to
\* its first await, and joins them.
GetBodyBattery ==
    /\ \A t \in Threads : ~Busy(t)
    /\ callsLeft >= 2
    /\ callsLeft' = callsLeft - 2
    /\ clientOf' = [t \in Threads |-> clientOf[1]]
    /\ method' = [t \in Threads |-> "GET"]
    /\ resps' = [t \in Threads |-> << >>]
    /\ result' = [t \in Threads |-> NoResult]
    /\ callLog' = [t \in Threads |-> [NewCallLog EXCEPT !.gats = 1]]
    /\ LET cache == oauth2Cache[clientOf[1]]
           fresh == CacheFresh(cache, now) IN
       /\ gatLog' = [t \in Threads |->
                       [NewGatLog EXCEPT !.entryCache = cache,
                           !.cacheFresh = cache # Null /\ cache.expires_at # Undef
                                          /\ cache.expires_at > now + SAFETY_MARGIN,
                           !.ret = fresh]]
       /\ token' = [t \in Threads |-> IF fresh THEN cache.access_token ELSE NoToken]
       /\ sent' = [t \in Threads |-> IF fresh THEN <<cache.access_token>> ELSE << >>]
       /\ pc' = [t \in Threads |-> IF fresh THEN "fetch_api" ELSE "kv_get_oauth2"]
    /\ tokenJson' = [t \in Threads |-> NoEntry]
    /\ oauth2' = [t \in Threads |-> Null]
    /\ data' = [t \in Threads |-> Null]
    /\ UNCHANGED <<edgeVars, now, kvVars, oauth2Cache, pendingPut, issued, lastWriter>>

\* Mutant of NewGarminClient: one client for all requests; its oauth2Cache
\* outlives the invocation.
ReusedGarminClient(t) ==
    /\ clientOf' = [clientOf EXCEPT ![t] = t]
    /\ pc' = [pc EXCEPT ![t] = "idle"]
    /\ method' = [method EXCEPT ![t] = "GET"]
    /\ tokenJson' = [tokenJson EXCEPT ![t] = NoEntry]
    /\ oauth2' = [oauth2 EXCEPT ![t] = Null]
    /\ data' = [data EXCEPT ![t] = Null]
    /\ token' = [token EXCEPT ![t] = NoToken]
    /\ sent' = [sent EXCEPT ![t] = << >>]
    /\ resps' = [resps EXCEPT ![t] = << >>]
    /\ result' = [result EXCEPT ![t] = NoResult]
    /\ gatLog' = [gatLog EXCEPT ![t] = NewGatLog]
    /\ callLog' = [callLog EXCEPT ![t] = NewCallLog]
    /\ UNCHANGED <<now, kvVars, oauth2Cache, pendingPut, issued, lastWriter, callsLeft>>

\* tools.ts:32 and garmin-client.ts:16-20: new GarminClient(env), whose
\* oauth2Cache is null.  Nothing of the previous invocation of the thread is
\* left.
NewGarminClient(t) ==
    /\ clientOf' = [clientOf EXCEPT ![t] = t]
    /\ oauth2Cache' = [oauth2Cache EXCEPT ![t] = Null]
    /\ pc' = [pc EXCEPT ![t] = "idle"]
    /\ method' = [method EXCEPT ![t] = "GET"]
    /\ tokenJson' = [tokenJson EXCEPT ![t] = NoEntry]
    /\ oauth2' = [oauth2 EXCEPT ![t] = Null]
    /\ data' = [data EXCEPT ![t] = Null]
    /\ token' = [token EXCEPT ![t] = NoToken]
    /\ sent' = [sent EXCEPT ![t] = << >>]
    /\ resps' = [resps EXCEPT ![t] = << >>]
    /\ result' = [result EXCEPT ![t] = NoResult]
    /\ gatLog' = [gatLog EXCEPT ![t] = NewGatLog]
    /\ callLog' = [callLog EXCEPT ![t] = NewCallLog]
    /\ UNCHANGED <<now, kvVars, pendingPut, issued, lastWriter, callsLeft>>

\* part_000:181-182 and tools.ts:32: a new inbound request builds a new
\* server and with it a new GarminClient.
RegisterTools(t) ==
    /\ pc[t] = "done"
    /\ \A u \in Threads : clientOf[u] = clientOf[t] => ~Busy(u)
    /\ NewGarminClient(t)
    /\ UNCHANGED edgeVars

\* ----------------------------------------------------------- percentEncode
\* A string is the sequence of its code points.  The characters tried: A z 9,
\* the marks - . _ ~, the marks ! ' ( ) *, space / % =, and e-acute and the
\* euro sign, of two and three UTF-8 bytes.
Alphabet == {65, 122, 57, 45, 46, 95, 126, 33, 39, 40, 41, 42, 32, 47, 37, 61,
             233, 8364}
Strings == UNION {[1..n -> Alphabet] : n \in 0..MaxLen}

\* The concatenation of the strings of a sequence.
Join(parts) ==
    LET f[i \in 0..Len(parts)] == IF i = 0 THEN << >> ELSE f[i - 1] \o parts[i]
    IN  f[Len(parts)]

\* encodeURIComponent leaves A-Z a-z 0-9 - _ . ! ~ * ' ( ) and escapes each
\* UTF-8 byte of any other character as % and two upper-case hex digits.
UriUnescaped ==
    (65..90) \cup (97..122) \cup (48..57) \cup {45, 95, 46, 33, 126, 42, 39, 40, 41}
Utf8(c) ==
    IF c < 128 THEN <<c>>
    ELSE IF c < 2048 THEN <<192 + (c \div 64), 128 + (c % 64)>>
    ELSE <<224 + (c \div 4096), 128 + ((c \div 64) % 64), 128 + (c % 64)>>
UpperHex == <<48, 49, 50, 51, 52, 53, 54, 55, 56, 57, 65, 66, 67, 68, 69, 70>>
EscapeByte(b) == <<37, UpperHex[(b \div 16) + 1], UpperHex[(b % 16) + 1]>>
encodeURIComponent(str) ==
    Join([i \in DOMAIN str |->
            IF str[i] \in UriUnescaped THEN <<str[i]>>
            ELSE Join([k \in DOMAIN Utf8(str[i]) |-> EscapeByte(Utf8(str[i])[k])])])

\* Number.prototype.toString(16): lower-case digits, no leading zero.
LowerHex == <<48, 49, 50, 51, 52, 53, 54, 55, 56, 57, 97, 98, 99, 100, 101, 102>>
RECURSIVE ToString16(_)
ToString16(n) ==
    IF n < 16 THEN <<LowerHex[n + 1]>>
    ELSE ToString16(n \div 16) \o <<LowerHex[(n % 16) + 1]>>

\* Mutant of ToUpperCase: the digits stay as toString(16) gave them.
ToUpperCaseLeftOut(str) == str

\* String.prototype.toUpperCase, on ASCII.
ToUpperCase(str) ==
    [i \in DOMAIN str |-> IF str[i] \in 97..122 THEN str[i] - 32 ELSE str[i]]

\* part_001:21-22: the characters of /[!'()*]/ and what replaces each.
Special == {33, 39, 40, 41, 42}
Replacement(c) == <<37>> \o ToUpperCase(ToString16(c))

\* part_001:19-24
percentEncode(str) ==
    LET enc == encodeURIComponent(str)
    IN  Join([i \in DOMAIN enc |->
                IF enc[i] \in Special THEN Replacement(enc[i]) ELSE <<enc[i]>>])

\* buildOAuth1Header calls percentEncode(str) (part_001:68, 74-75, 79, 87).
CallPercentEncode ==
    /\ encOut = NotEncoded
    /\ encOut' = percentEncode(encIn)
    /\ UNCHANGED <<mainVars, http, encIn>>

\* ------------------------------------------------------------- front door
API_KEY == "k1"                           \* env.API_KEY
NoHeader == ""                            \* headers.get("Authorization") = null
Bearer(key) == "Bearer " \o key           \* `Bearer ${env.API_KEY}`
AuthHeaders == {NoHeader, Bearer(API_KEY), Bearer("k2"), API_KEY}
HttpMethods == {"OPTIONS", "GET", "POST", "DELETE"}
Paths == {"/health", "/mcp", "/x"}
\* The JSON-RPC method of the body of a POST: a notification carries no id.
RpcMethods == {"tools/call", "tools/list", "notifications/initialized"}
Requests ==
    [method : HttpMethods \ {"POST"}, path : Paths, auth : AuthHeaders, rpc : {""}]
      \cup [method : {"POST"}, path : Paths, auth : AuthHeaders, rpc : RpcMethods]

\* Mutant of Authorized: any Authorization header is accepted.
AuthorizedIfPresent(header) == header # NoHeader

\* part_000:234-235  !(!authHeader || authHeader !== `Bearer ${env.API_KEY}`)
Authorized(header) == header # NoHeader /\ header = Bearer(API_KEY)

\* part_000:219-245: the status fetch answers with before it reads the body,
\* 0 when it goes on to request.json().
EarlyReturn(r) ==
    IF r.method = "OPTIONS" THEN 204
    ELSE IF r.path = "/" \/ r.path = "/health" THEN 200
    ELSE IF r.path # "/mcp" THEN 404
    ELSE IF ~Authorized(r.auth) THEN 401
    ELSE IF r.method = "DELETE" THEN 200
    ELSE IF r.method # "POST" THEN 405
    ELSE 0

\* part_000:253  !first?.id && method?.startsWith("notifications/")
IsNotification(rpc) == rpc = "notifications/initialized"

\* part_000:215-248: request r arrives and is handled up to the first await,
\* that of request.json().  Requests are taken one after the other.
Fetch(r) ==
    /\ ~Busy(1)
    /\ http.status # 0 \/ http = NoRequest
    /\ EarlyReturn(r) = 0 /\ r.rpc = "tools/call" => callsLeft > 0
    /\ http' = [request |-> r, status |-> EarlyReturn(r), served |-> FALSE,
                tool |-> NoToolResult]
    /\ UNCHANGED <<mainVars, encIn, encOut>>

\* part_000:248-262, 181-182: the body is parsed; a notification is answered
\* 202, for anything else createInitializedServer builds a server and
\* registerTools a GarminClient.
ParseBody ==
    /\ http # NoRequest /\ http.status = 0 /\ ~http.served
    /\ IF IsNotification(http.request.rpc)
          THEN /\ http' = [http EXCEPT !.status = 202]
               /\ UNCHANGED mainVars
          ELSE /\ http' = [http EXCEPT !.served = TRUE]
               /\ NewGarminClient(1)
    /\ UNCHANGED <<encIn, encOut>>

\* part_000:272 and tools.ts: transport.handleRequest runs the tool that
\* tools/call names, which calls get, post or put of the client.
ToolCall(m) ==
    /\ http.served /\ http.status = 0
    /\ http.request.rpc = "tools/call"
    /\ pc[1] = "idle"
    /\ StartCall(1, m)

\* e.message of an error thrown by the client: the texts of
\* garmin-client.ts:37-39, 50-52, 99, 106, 132, 159 and part_001:101, 135-137
\* are told apart by what they name: the failure, the status, the body.
Message(e) == <<e.type, e.status, e.body>>

\* tools.ts:19-25: success(date, data), successMsg(msg, {data}).
success(d) == [success |-> TRUE, data |-> d]

\* tools.ts:27-29: error(msg).
error(msg) == [success |-> FALSE, error |-> msg]

\* Mutant of ToolHandler: the catch clause answers with an empty success.
ToolHandlerSwallowing(r) ==
    IF r.kind = "error" THEN success(ReturnedNull) ELSE success(r)

\* tools.ts:42-50, 344-363 and the same try/catch in every tool: what the
\* handler returns when its call of the client has returned or thrown r.
ToolHandler(r) ==
    IF r.kind = "error" THEN error(Message(r)) ELSE success(r)

\* part_000:272-273: the tool's handler returns and the response of
\* transport.handleRequest is returned.
Respond ==
    /\ http.served /\ http.status = 0
    /\ IF http.request.rpc = "tools/call" THEN pc[1] = "done" ELSE pc[1] = "idle"
    /\ http' = [http EXCEPT !.status = 200,
                            !.tool = IF http.request.rpc = "tools/call"
                                        THEN ToolHandler(result[1])
                                        ELSE NoToolResult]
    /\ UNCHANGED <<mainVars, encIn, encOut>>

\* ------------------------------------------------------------------ clock
Tick ==
    /\ now < T0 + MaxTicks
    /\ now' = now + 1
    /\ UNCHANGED <<edgeVars, kvVars, oauth2Cache, clientOf, pc, method,
                   localVars, token, sent, resps, result, pendingPut, gatLog,
                   callLog, issued, lastWriter, callsLeft>>

\* One invocation at a time, against every answer of the remote services.
CallNext ==
    \/ \E m \in Methods : StartCall(1, m)
    \/ KvGetOAuth2(1)
    \/ KvGetOAuth1(1)
    \/ KvGetConsumer(1)
    \/ \E st \in ConsumerStatuses : FetchConsumer(1, st)
    \/ KvPutConsumer(1)
    \/ BuildOAuth1Header(1)
    \/ \E st \in ExchangeStatuses :
          \E b \in ExchangeAnswers(st, issued + 1, ExchangeShapes, ExchangeErrors) :
             FetchExchange(1, st, b)
    \/ KvPutOAuth2(1)
    \/ \E r \in ApiResponses : ApiResponse(1, r)
    \/ RegisterTools(1)
    \/ Tick

SpecCall == Init /\ [][CallNext]_vars

\* Two threads: two concurrent invocations, or the two gets of
\* get_body_battery.  The remote services answer with the shapes and
\* statuses that decide the control flow.
ConcShapes == { <<72000, Undef, 2592000, Undef>>, <<30, Undef, 2592000, T0 + 2600000>> }
ConcMethods == {"GET"}
ConcErrors == {"x1"}
ConcResponses == { [status |-> 200, body |-> "j1"], [status |-> 401, body |-> ErrorBody] }

Next ==
    \/ \E t \in Threads, m \in ConcMethods : StartCall(t, m)
    \/ \E t \in Threads : KvGetOAuth2(t)
    \/ \E t \in Threads : KvGetOAuth1(t)
    \/ \E t \in Threads : KvGetConsumer(t)
    \/ \E t \in Threads, st \in ConsumerStatuses : FetchConsumer(t, st)
    \/ \E t \in Threads : KvPutConsumer(t)
    \/ \E t \in Threads : BuildOAuth1Header(t)
    \/ \E t \in Threads, st \in {200, 401} :
          \E b \in ExchangeAnswers(st, issued + 1, ConcShapes, ConcErrors) :
             FetchExchange(t, st, b)
    \/ \E t \in Threads : KvPutOAuth2(t)
    \/ \E t \in Threads, r \in ConcResponses : ApiResponse(t, r)
    \/ GetBodyBattery
    \/ \E t \in Threads : RegisterTools(t)
    \/ Tick

\* The concurrent invocations start from a store without a consumer pair and
\* with a credential that is stale, about to be stale, fresh or absent.
ConcInit ==
    /\ Init
    /\ kvConsumer = NoEntry
    /\ kvOAuth2 # Stringify(Provisioned(T0 + SAFETY_MARGIN))

Spec == ConcInit /\ [][Next]_vars

\* Inbound requests, one at a time, and the calls of the tools they run,
\* within one second of the clock.
FetchNext ==
    \/ \E r \in Requests : Fetch(r)
    \/ ParseBody
    \/ \E m \in ConcMethods : ToolCall(m)
    \/ Respond
    \/ KvGetOAuth2(1)
    \/ KvGetOAuth1(1)
    \/ KvGetConsumer(1)
    \/ \E st \in ConsumerStatuses : FetchConsumer(1, st)
    \/ KvPutConsumer(1)
    \/ BuildOAuth1Header(1)
    \/ \E st \in {200, 401} :
          \E b \in ExchangeAnswers(st, issued + 1, ConcShapes, ConcErrors) :
             FetchExchange(1, st, b)
    \/ KvPutOAuth2(1)
    \/ \E r \in ConcResponses : ApiResponse(1, r)

SpecFetch == Init /\ [][FetchNext]_vars

\* percentEncode applied to every string of at most MaxLen characters.
InitEncode ==
    /\ Construction
    /\ kvOAuth2 = NoEntry /\ kvOAuth1 = NoEntry /\ kvConsumer = NoEntry
    /\ http = NoRequest
    /\ encIn \in Strings
    /\ encOut = NotEncoded

EncodeNext == CallPercentEncode

SpecEncode == InitEncode /\ [][EncodeNext]_vars

\* =================================================================== claims
Range(q) == {q[i] : i \in DOMAIN q}

\* C1: whenever getAccessToken returns after reading a stored credential with
\* expires_at <= now + 60 (an OAuth1 credential being present), it has made
\* exactly one exchange request, and the token it returns is the access token
\* of that exchange's response, not the stored one.
C1_StaleTriggersOneExchange ==
    \A t \in Threads :
        gatLog[t].ret /\ gatLog[t].readStale =>
            /\ gatLog[t].exch = 1
            /\ gatLog[t].resp # Null
            /\ token[t] = gatLog[t].resp.access_token
            /\ token[t] # Parse(tokenJson[t]).access_token

\* C1 witness: the boundary expires_at = now + 60 was read, one exchange was
\* made and the token of its response is the one in use.
C1_Witness ==
    /\ now = T0
    /\ pc[1] = "fetch_api"
    /\ tokenJson[1] # NoEntry
    /\ Parse(tokenJson[1]).expires_at = T0 + SAFETY_MARGIN
    /\ gatLog[1].ret /\ gatLog[1].readStale /\ gatLog[1].exch = 1
    /\ token[1] = gatLog[1].resp.access_token

\* C2: whenever the credential getAccessToken consults has expires_at >
\* now + 60, its access token is returned with no exchange request, no
\* consumer-key fetch and no store write; a fresh in-process cache is
\* returned without a read of the store.
C2_FreshNoRefresh ==
    \A t \in Threads :
        /\ gatLog[t].cacheFresh =>
              /\ gatLog[t].ret
              /\ token[t] = gatLog[t].entryCache.access_token
              /\ gatLog[t].reads = 0 /\ gatLog[t].writes = 0
              /\ gatLog[t].exch = 0 /\ gatLog[t].cons = 0
        /\ ~gatLog[t].cacheFresh /\ gatLog[t].readFresh =>
              /\ gatLog[t].ret
              /\ token[t] = Parse(tokenJson[t]).access_token
              /\ gatLog[t].reads = 1 /\ gatLog[t].writes = 0
              /\ gatLog[t].exch = 0 /\ gatLog[t].cons = 0

\* C2 witness: a second call on the same client found the cache fresh.
C2_Witness ==
    /\ pc[1] = "fetch_api"
    /\ gatLog[1].cacheFresh /\ gatLog[1].ret /\ gatLog[1].reads = 0
    /\ token[1] = oauth2Cache[clientOf[1]].access_token

\* C3: when the cache is empty and the store has no OAuth2 credential,
\* getAccessToken fails with the credentials-missing error; no exchange, no
\* consumer-key fetch and no data-API request is made, and neither the store
\* nor the cache is written.
C3_MissingOAuth2Fails ==
    \A t \in Threads :
        gatLog[t].entryCache = Null /\ gatLog[t].reads > 0 /\ tokenJson[t] = NoEntry =>
            /\ pc[t] = "done"
            /\ result[t] = Thrown("CredentialsMissing", 0, "oauth2")
            /\ gatLog[t].reads = 1 /\ gatLog[t].writes = 0
            /\ gatLog[t].exch = 0 /\ gatLog[t].cons = 0
            /\ sent[t] = << >>
            /\ kvOAuth2 = NoEntry
            /\ oauth2Cache[clientOf[t]] = Null

\* C3 witness: the failure with an OAuth1 credential in the store.
C3_Witness ==
    /\ pc[1] = "done"
    /\ kvOAuth1 # NoEntry
    /\ gatLog[1].reads = 1 /\ tokenJson[1] = NoEntry
    /\ result[1].type = "CredentialsMissing"

\* C4: a get whose first answer is 401 or 403 and whose retry answer is 200
\* has cleared the cache once, has called getAccessToken again on the cleared
\* cache, so that the retry's token comes from a re-read of the store, has
\* made two data-API requests, and returns the body of the retry answer.
C4_RetryAfterAuthFailure ==
    \A t \in Threads :
        /\ pc[t] = "done" /\ method[t] = "GET" /\ Len(resps[t]) = 2
        /\ AuthFailure(resps[t][1].status) /\ resps[t][2].status = 200
        =>  /\ callLog[t].clears = 1
            /\ callLog[t].gats = 2
            /\ gatLog[t].entryCache = Null
            /\ gatLog[t].reads >= 1 /\ tokenJson[t] # NoEntry
            /\ Len(sent[t]) = 2
            /\ sent[t][2] = oauth2[t].access_token
            /\ result[t] = Returned(resps[t][2].body)

\* C4 witness: 401 then 200, and the caller has the body of the 200.
C4_Witness ==
    /\ pc[1] = "done" /\ method[1] = "GET"
    /\ resps[1] = <<[status |-> 401, body |-> ErrorBody], [status |-> 200, body |-> "j2"]>>
    /\ result[1] = Returned("j2")
    /\ callLog[1].clears = 1

\* C5: no call makes more than two data-API requests, and a get whose two
\* answers are both 401 or 403 fails with the status of the second.
C5_SecondAuthFailureIsFinal ==
    \A t \in Threads :
        /\ Len(sent[t]) <= 2
        /\ Len(resps[t]) = 2 /\ AuthFailure(resps[t][1].status)
              /\ AuthFailure(resps[t][2].status) =>
              /\ pc[t] = "done"
              /\ result[t] = Thrown("ApiError", resps[t][2].status, resps[t][2].body)

\* C5 witness: 401 then 403; the error carries 403.
C5_Witness ==
    /\ pc[1] = "done" /\ Len(resps[1]) = 2
    /\ resps[1][1].status = 401 /\ resps[1][2].status = 403
    /\ result[1].kind = "error" /\ result[1].status = 403

\* C6: whatever the method, a call whose first answer is 401 or 403 clears
\* the cache once, calls getAccessToken again and, given a token, sends the
\* request a second time.
C6_RetryForEveryMethod ==
    \A t \in Threads :
        pc[t] = "done" /\ Len(resps[t]) >= 1 /\ AuthFailure(resps[t][1].status) =>
            /\ callLog[t].clears = 1
            /\ callLog[t].gats = 2
            /\ gatLog[t].ret => Len(sent[t]) = 2

\* C7: the OAuth2 document in the store always has both absolute fields,
\* expires_at and refresh_token_expires_at.
C7_StoredExpiriesAbsolute ==
    kvOAuth2 # NoEntry =>
        {"expires_at", "refresh_token_expires_at"} \subseteq DOMAIN kvOAuth2

\* C8: once an exchange has been persisted, re-loading the stored credential
\* gives expires_at = now + expires_in and refresh_token_expires_at = now +
\* refresh_token_expires_in (now the second of receipt) for the absolute
\* fields the response omitted, and the response's own values for those it
\* supplied.
C8_ExpiryArithmetic ==
    \A t \in Threads :
        gatLog[t].ret /\ gatLog[t].exch = 1 =>
            LET b == gatLog[t].resp
                n == gatLog[t].respNow
                k == Parse(kvOAuth2)
            IN  /\ b.expires_at = Undef /\ b.expires_in # Undef =>
                      k.expires_at = n + b.expires_in
                /\ b.refresh_token_expires_at = Undef
                      /\ b.refresh_token_expires_in # Undef =>
                      k.refresh_token_expires_at = n + b.refresh_token_expires_in
                /\ b.expires_at # Undef => k.expires_at = b.expires_at
                /\ b.refresh_token_expires_at # Undef =>
                      k.refresh_token_expires_at = b.refresh_token_expires_at

\* C9: while the kv.put of an exchanged credential is pending, its thread is
\* suspended at that await: getAccessToken has not returned, and the new
\* access token is neither held by the caller nor sent to the data API.  A
\* token returned from an exchange is therefore a token whose write is done.
C9_WriteBeforeReturn ==
    \A t \in Threads :
        /\ pendingPut[t] =>
              /\ pc[t] = "kv_put_oauth2"
              /\ ~gatLog[t].ret
              /\ token[t] # data[t].access_token
              /\ data[t].access_token \notin Range(sent[t])
        /\ gatLog[t].ret /\ gatLog[t].exch = 1 =>
              /\ ~pendingPut[t]
              /\ gatLog[t].writes >= 1

\* C9 witness: the token of an exchange is in use and the store holds the
\* credential it came with.
C9_Witness ==
    /\ pc[1] = "fetch_api"
    /\ gatLog[1].ret /\ gatLog[1].exch = 1
    /\ ~pendingPut[1]
    /\ kvOAuth2 = Stringify(data[1])
    /\ sent[1] = <<data[1].access_token>>

\* Both threads, each with a client of its own, have read a stale stored
\* credential, made an exchange and returned from getAccessToken.
BothRefreshed ==
    /\ clientOf[1] # clientOf[2]
    /\ \A t \in Threads : gatLog[t].ret /\ gatLog[t].readStale /\ gatLog[t].exch = 1

\* C10: when two invocations have both refreshed, each holds the access token
\* of its own exchange, and the store holds the credential of the invocation
\* whose write came last.
C10_LastWriteWins ==
    BothRefreshed =>
        /\ \A t \in Threads : token[t] = gatLog[t].resp.access_token
        /\ token[1] # token[2]
        /\ lastWriter \in Threads
        /\ kvOAuth2 = Stringify(data[lastWriter])

\* C10 witness: both invocations read the same stale credential, the one the
\* operator uploaded, before either wrote; both exchanged and both wrote.
C10_Witness ==
    /\ BothRefreshed
    /\ tokenJson[1] = tokenJson[2]
    /\ Parse(tokenJson[1]).access_token = 0
    /\ \A t \in Threads : gatLog[t].writes >= 1 /\ ~pendingPut[t]
    /\ lastWriter = 1
    /\ Parse(kvOAuth2).access_token = token[1]
    /\ token[2] > token[1]

\* doc is one whole credential: the one the operator uploaded, or the
\* normalised body of one 2xx exchange answer.
Whole(doc) ==
    LET d == Parse(doc) IN
    IF d.access_token = 0
      THEN \E e \in ProvisionedExpiries : doc = Stringify(Provisioned(e))
      ELSE /\ d.access_token \in 1..issued
           /\ \E sh \in ExchangeShapes :
                 /\ d.expires_in = sh[1] /\ d.refresh_token_expires_in = sh[3]
                 /\ \E n \in T0..now :
                       doc = Stringify(Normalize(ExchangeBody(d.access_token, sh), n))

\* C11: under concurrent invocations the stored OAuth2 record is always
\* absent or one whole credential (the uploaded one or the complete normalised
\* result of one exchange), and so is every document a read of it returned:
\* never fields of two credentials mixed.
C11_StoredCredentialWhole ==
    /\ kvOAuth2 = NoEntry \/ Whole(kvOAuth2)
    /\ \A t \in Threads : tokenJson[t] = NoEntry \/ Whole(tokenJson[t])

\* C11 witness: two invocations exchanged and wrote one after the other, and
\* a read of the store then returned the credential of the other one's
\* exchange.
C11_Witness ==
    /\ issued = 2
    /\ clientOf[1] # clientOf[2]
    /\ gatLog[2].writes >= 1 /\ gatLog[2].resp # Null
    /\ lastWriter = 2
    /\ pc[1] # "kv_get_oauth2" /\ pc[1] # "idle"
    /\ gatLog[1].reads >= 1
    /\ tokenJson[1] # NoEntry
    /\ Parse(tokenJson[1]).access_token = gatLog[2].resp.access_token
    /\ tokenJson[1] = Stringify(Normalize(gatLog[2].resp, gatLog[2].respNow))

\* C12: no step of getAccessToken, of the exchange, of the consumer-key
\* lookup or of an authenticated GET, POST or PUT, successful or failed,
\* changes the stored OAuth1 credential.
C12_OAuth1NeverWritten == [][kvOAuth1' = kvOAuth1]_vars

\* C12 witness: a call that looked the consumer pair up remotely, stored it,
\* exchanged, stored the new OAuth2 credential and got its data has ended, the
\* OAuth1 credential being the uploaded one.
C12_Witness ==
    /\ kvOAuth1 = OAuth1Token
    /\ pc[1] = "done" /\ result[1].kind = "ok"
    /\ gatLog[1].cons = 1 /\ gatLog[1].exch = 1 /\ gatLog[1].writes = 2
    /\ kvConsumer = ConsumerEntry(now + CONSUMER_TTL)
    /\ Parse(kvOAuth2).access_token = gatLog[1].resp.access_token

\* C13: once the exchange endpoint has answered with a non-2xx status, the
\* call has failed with an error carrying that status and the text of the
\* answer; getAccessToken returned no token, the stored OAuth2 record is the
\* one that was read, the in-process cache is what it was on entry, no OAuth2
\* write was made and no data-API request followed the failed refresh.
C13_ExchangeRejected ==
    \A t \in Threads :
        gatLog[t].exch >= 1 /\ ~Ok(gatLog[t].exStatus) =>
            /\ pc[t] = "done"
            /\ result[t] = Thrown("ExchangeRejected", gatLog[t].exStatus,
                                  gatLog[t].exText)
            /\ gatLog[t].exText \in ExchangeErrors
            /\ gatLog[t].exch = 1
            /\ ~gatLog[t].ret
            /\ kvOAuth2 = tokenJson[t]
            /\ ~pendingPut[t] /\ gatLog[t].writes <= 1
            /\ oauth2Cache[clientOf[t]] = gatLog[t].entryCache
            /\ Len(sent[t]) = Len(resps[t])

\* C13 witness: a stale stored credential, the exchange answered 503 with
\* text "x2", and the call ended with that error.
C13_Witness ==
    /\ pc[1] = "done"
    /\ gatLog[1].readStale /\ gatLog[1].exch = 1
    /\ gatLog[1].exStatus = 503
    /\ result[1] = Thrown("ExchangeRejected", 503, "x2")
    /\ kvOAuth2 = Stringify(Provisioned(T0 + SAFETY_MARGIN))
    /\ sent[1] = << >>

\* C14: when the stored OAuth2 credential was read stale and the store holds
\* no OAuth1 credential, the call has failed with the credentials-missing
\* error once the OAuth1 read resolved: after two store reads, with no
\* consumer-key lookup, no remote request and no store write, the OAuth2
\* record and the in-process cache being what they were.
C14_MissingOAuth1Fails ==
    \A t \in Threads :
        gatLog[t].readStale /\ kvOAuth1 = NoEntry /\ pc[t] # "kv_get_oauth1" =>
            /\ pc[t] = "done"
            /\ result[t] = Thrown("CredentialsMissing", 0, "oauth1")
            /\ ~gatLog[t].ret
            /\ gatLog[t].reads = 2 /\ ~gatLog[t].consLooked
            /\ gatLog[t].cons = 0 /\ gatLog[t].exch = 0
            /\ gatLog[t].writes = 0 /\ ~pendingPut[t]
            /\ kvOAuth2 = tokenJson[t]
            /\ oauth2Cache[clientOf[t]] = gatLog[t].entryCache
            /\ Len(sent[t]) = Len(resps[t])

\* C14 witness: the stale uploaded credential was read, no OAuth1 credential
\* is stored, and the call ended with the credentials-missing error.
C14_Witness ==
    /\ kvOAuth1 = NoEntry
    /\ kvOAuth2 = Stringify(Provisioned(T0 - 1))
    /\ pc[1] = "done"
    /\ gatLog[1].readStale /\ gatLog[1].reads = 2
    /\ result[1] = Thrown("CredentialsMissing", 0, "oauth1")
    /\ issued = 0

\* C15: a consumer-key lookup that found an unexpired pair in the store makes
\* no remote fetch and no write; a lookup makes at most one remote fetch; and
\* once a lookup that missed has fetched the pair and returned, the store
\* holds the pair with an expiration 24 hours after a second of the
\* behaviour, so that the pair is still there for a lookup made now.
C15_ConsumerLookup ==
    \A t \in Threads :
        /\ gatLog[t].cons <= 1
        /\ gatLog[t].consLooked /\ gatLog[t].consLive =>
              /\ gatLog[t].cons = 0
              /\ pc[t] \notin {"fetch_consumer", "kv_put_consumer"}
        /\ gatLog[t].consLooked /\ ~gatLog[t].consLive =>
              \/ pc[t] \in {"fetch_consumer", "kv_put_consumer"}
              \/ gatLog[t].cons = 1 /\ ~Ok(gatLog[t].consStatus)
              \/ /\ gatLog[t].cons = 1 /\ Ok(gatLog[t].consStatus)
                 /\ \E w \in T0..now : kvConsumer = [value |-> Consumer,
                                                     expiration |-> w + 24 * 3600]
                 /\ KvLive(kvConsumer, now)

\* C15 witness: a lookup found the pair that an earlier lookup of the same
\* behaviour had fetched and stored, and went on to sign without a fetch.
C15_Witness ==
    /\ callsLeft = 0
    /\ pc[1] = "sign"
    /\ gatLog[1].consLooked /\ gatLog[1].consLive /\ gatLog[1].cons = 0
    /\ kvConsumer # NoEntry
    /\ kvConsumer.expiration >= T0 + 24 * 3600

\* C16: once the fetch of the consumer pair, made because the store had none,
\* has been answered with a non-2xx status, the call has failed with the
\* error of that fetch: one fetch and no second one, no exchange request, no
\* store write, the consumer record and the OAuth2 record left as they were,
\* no token returned and no data-API request made after it.
C16_ConsumerFetchFails ==
    \A t \in Threads :
        gatLog[t].cons >= 1 /\ ~Ok(gatLog[t].consStatus) =>
            /\ gatLog[t].consLooked /\ ~gatLog[t].consLive
            /\ pc[t] = "done"
            /\ result[t] = Thrown("UpstreamUnavailable", gatLog[t].consStatus, "")
            /\ gatLog[t].cons = 1
            /\ gatLog[t].exch = 0
            /\ gatLog[t].writes = 0 /\ ~pendingPut[t]
            /\ ~KvLive(kvConsumer, now)
            /\ kvConsumer \in {NoEntry, ConsumerEntry(T0 + 1)}
            /\ kvOAuth2 = tokenJson[t]
            /\ ~gatLog[t].ret
            /\ oauth2Cache[clientOf[t]] = gatLog[t].entryCache
            /\ Len(sent[t]) = Len(resps[t])

\* C16 witness: the store had no consumer pair, CONSUMER_URL answered 403
\* and the call ended with that error, the store still holding no pair.
C16_Witness ==
    /\ kvConsumer = NoEntry
    /\ pc[1] = "done"
    /\ gatLog[1].readStale /\ gatLog[1].cons = 1
    /\ gatLog[1].consStatus = 403
    /\ result[1] = Thrown("UpstreamUnavailable", 403, "")
    /\ kvOAuth2 = Stringify(Provisioned(T0 - 1))

\* C17: a call whose latest data-API answer is a 204 has ended and returned
\* null, not an error: for get, post and put, and for the answer to the
\* second request of a get as well.
C17_NoContentIsNull ==
    \A t \in Threads :
        Len(resps[t]) >= 1 /\ resps[t][Len(resps[t])].status = 204 =>
            /\ pc[t] = "done"
            /\ result[t] = ReturnedNull

\* C17 witness: a get was answered 401, refreshed, and its second request
\* was answered 204; the call returned null.
C17_Witness ==
    /\ pc[1] = "done" /\ method[1] = "GET"
    /\ Len(resps[1]) = 2
    /\ resps[1][1].status = 401 /\ resps[1][2].status = 204
    /\ callLog[1].gats = 2
    /\ result[1] = ReturnedNull

\* A request to /mcp, not a preflight, without the expected bearer key.
Unauthorized(r) ==
    /\ r.path = "/mcp" /\ r.method # "OPTIONS"
    /\ r.auth = NoHeader \/ r.auth # "Bearer k1"

\* C18: a request to /mcp with a method other than OPTIONS whose
\* Authorization header is absent or is not "Bearer <API_KEY>" is answered
\* 401 and no server is created for it; from its arrival on, as long as it
\* is the latest request, no client is made, no call starts, the store is
\* neither read nor written and nothing is sent.
C18_UnauthorizedRejected ==
    [][Unauthorized(http'.request) =>
          /\ http'.status = 401 /\ ~http'.served
          /\ UNCHANGED <<kvVars, oauth2Cache, clientOf, pc, method, localVars,
                         token, sent, resps, result, pendingPut, gatLog,
                         callLog, issued, lastWriter, callsLeft>>]_vars

\* C18 witness: after a served tool call, a POST of tools/call to /mcp with
\* the key of another deployment was answered 401.
C18_Witness ==
    /\ http.request = [method |-> "POST", path |-> "/mcp", auth |-> "Bearer k2",
                       rpc |-> "tools/call"]
    /\ http.status = 401 /\ ~http.served
    /\ pc[1] = "done" /\ result[1].kind = "ok"
    /\ callsLeft > 0

\* The RFC 3986 unreserved characters: letters, digits, - . _ ~
Unreserved == (65..90) \cup (97..122) \cup (48..57) \cup {45, 46, 95, 126}
\* "%" and the two upper-case hex digits of byte b.
Triplet(b) ==
    LET hex(d) == IF d < 10 THEN 48 + d ELSE 55 + d
    IN  <<37, hex(b \div 16), hex(b % 16)>>
\* What the claim has percentEncode make of character c.
Encoded(c) ==
    CASE c = 33 -> <<37, 50, 49>>
      [] c = 39 -> <<37, 50, 55>>
      [] c = 40 -> <<37, 50, 56>>
      [] c = 41 -> <<37, 50, 57>>
      [] c = 42 -> <<37, 50, 65>>
      [] c \in Unreserved -> <<c>>
      [] OTHER -> Join([k \in DOMAIN Utf8(c) |-> Triplet(Utf8(c)[k])])

\* C20: for every string of the alphabet, percentEncode returns, character
\* by character, %21 %27 %28 %29 %2A for ! ' ( ) *, the character itself for
\* an unreserved one, and upper-case hex triplets for any other.
C20_PercentEncode ==
    encOut # NotEncoded =>
        encOut = Join([i \in DOMAIN encIn |-> Encoded(encIn[i])])

\* C20 witness: "*~" was encoded as "%2A~".
C20_Witness ==
    /\ encIn = <<42, 126>>
    /\ encOut = <<37, 50, 65, 126>>

\* C21: an exchange request is in flight or has been answered only inside a
\* getAccessToken call that has not returned, of a thread that is running a
\* call, and only after that call read a stored OAuth2 credential with
\* expires_at <= now + 60 and then the OAuth1 credential, which the store
\* holds.
C21_RefreshIsLazy ==
    \A t \in Threads :
        /\ pc[t] \in {"sign", "fetch_exchange", "kv_put_oauth2"} \/ gatLog[t].exch >= 1 =>
              /\ gatLog[t].readStale
              /\ ~gatLog[t].cacheFresh
              /\ gatLog[t].reads >= 2
              /\ kvOAuth1 = OAuth1Token
              /\ callLog[t].gats >= 1
        /\ pc[t] = "fetch_exchange" => ~gatLog[t].ret /\ gatLog[t].exch = 0
        /\ pc[t] \in {"idle", "done"} /\ gatLog[t].exch >= 1 =>
              gatLog[t].exStatus # 0

\* C21 witness: the exchange request of a call that read the uploaded, stale
\* credential is in flight.
C21_Witness ==
    /\ pc[1] = "fetch_exchange"
    /\ gatLog[1].readStale /\ gatLog[1].reads = 3
    /\ Parse(tokenJson[1]).expires_at = T0 - 1
    /\ issued = 0

\* C25: once the first data-API response of a call is neither 2xx nor 401 nor
\* 403, the call of any method has failed with an error carrying that status
\* and body after exactly one request and one getAccessToken, and the cache
\* still holds the credential whose token was sent.
C25_OtherErrorsAreTerminal ==
    \A t \in Threads :
        /\ Len(resps[t]) >= 1
        /\ ~Ok(resps[t][1].status)
        /\ resps[t][1].status \notin {401, 403}
        => /\ pc[t] = "done"
           /\ result[t] = Thrown("ApiError", resps[t][1].status, resps[t][1].body)
           /\ Len(resps[t]) = 1 /\ Len(sent[t]) = 1
           /\ callLog[t].gats = 1 /\ callLog[t].clears = 0
           /\ gatLog[t].ret
           /\ oauth2Cache[clientOf[t]] # Null
           /\ oauth2Cache[clientOf[t]].access_token = sent[t][1]

\* C25 witness: a GET answered 500 on a token served from the cache.
C25_Witness ==
    /\ method[1] = "GET" /\ pc[1] = "done"
    /\ Len(resps[1]) = 1 /\ resps[1][1].status = 500
    /\ gatLog[1].cacheFresh /\ gatLog[1].exch = 0

\* C27: when the getAccessToken that follows a rejected first GET re-reads a
\* stored credential that is fresh by the clock (expires_at > now + 60), it
\* returns without asking for the consumer pair or an exchange and without
\* writing the store, and the retry carries the access token of the rejected
\* first attempt.
C27_RejectedFreshTokenIsResent ==
    \A t \in Threads :
        callLog[t].gats = 2 /\ gatLog[t].readFresh =>
            /\ method[t] = "GET" /\ callLog[t].clears = 1
            /\ resps[t][1].status \in {401, 403}
            /\ gatLog[t].entryCache = Null
            /\ gatLog[t].reads = 1 /\ gatLog[t].ret
            /\ gatLog[t].cons = 0 /\ gatLog[t].exch = 0 /\ gatLog[t].writes = 0
            /\ Len(sent[t]) = 2 /\ sent[t][2] = sent[t][1]
            /\ sent[t][2] = Parse(kvOAuth2).access_token

\* C27 witness: a GET rejected with 401 on a token that the same call had
\* obtained by an exchange; the retry re-read the store and was rejected again.
C27_Witness ==
    /\ callLog[1].gats = 2 /\ gatLog[1].readFresh
    /\ issued = 1 /\ lastWriter = 1
    /\ pc[1] = "done" /\ Len(resps[1]) = 2 /\ resps[1][2].status = 401

\* The step gives the cache of client c a credential: a thread of c has just
\* read it from the store, or has just written it there after its exchange.
FromStore(c) ==
    \E t \in Threads :
        /\ clientOf[t] = c
        /\ \/ /\ pc[t] = "kv_get_oauth2"
              /\ oauth2Cache'[c] = Parse(kvOAuth2)
              /\ kvOAuth2' = kvOAuth2
           \/ /\ pc[t] = "kv_put_oauth2"
              /\ oauth2Cache'[c] = data[t]
              /\ kvOAuth2' = Stringify(data[t])

\* The step empties the cache of client c: a thread of c has just received
\* 401 or 403, or the client is a new object of a new invocation.
Emptied(c) ==
    \/ \E t \in Threads :
          /\ clientOf[t] = c /\ pc[t] = "fetch_api"
          /\ Len(resps'[t]) = Len(resps[t]) + 1
          /\ resps'[t][Len(resps'[t])].status \in {401, 403}
    \/ pc[c] \in {"idle", "done"} /\ pc'[c] = "idle" /\ callLog'[c] = NewCallLog

\* C22: the cache of a client changes only to a credential just read from the
\* store or just written to it by the exchange, or to empty on a 401/403 (or
\* with a new client); a getAccessToken that returns leaves in the cache the
\* credential whose access token it returns; the OAuth2 record changes only
\* when a thread whose exchange succeeded writes its normalised answer.
C22_CacheShadowsStore ==
    [][ /\ \A c \in Threads :
            oauth2Cache'[c] # oauth2Cache[c] =>
                IF oauth2Cache'[c] = Null THEN Emptied(c) ELSE FromStore(c)
        /\ \A t \in Threads :
            pc'[t] = "fetch_api" /\ pc[t] # "fetch_api" =>
                /\ oauth2Cache'[clientOf'[t]] # Null
                /\ oauth2Cache'[clientOf'[t]].access_token = token'[t]
                /\ sent'[t][Len(sent'[t])] = token'[t]
        /\ kvOAuth2' # kvOAuth2 =>
            \E t \in Threads :
                /\ pc[t] = "kv_put_oauth2" /\ Ok(gatLog[t].exStatus)
                /\ kvOAuth2' = Stringify(data[t])
      ]_vars

\* C22 witness: a call whose first getAccessToken refreshed, was rejected,
\* and whose second getAccessToken filled the emptied cache from the store.
C22_Witness ==
    /\ callLog[1].gats = 2 /\ callLog[1].clears = 1
    /\ gatLog[1].entryCache = Null /\ gatLog[1].ret /\ gatLog[1].reads = 1
    /\ lastWriter = 1
    /\ oauth2Cache[1] # Null /\ Stringify(oauth2Cache[1]) = kvOAuth2

\* C23: a served request has an empty cache until its tool calls the client,
\* and the first getAccessToken of the request found the cache empty, so it
\* read the OAuth2 record of the store; the token it returned is the one of
\* the stored record.
C23_InvocationStartsCold ==
    /\ http.served /\ pc[1] = "idle" => oauth2Cache[1] = Null
    /\ http.served /\ callLog[1].gats = 1 =>
          /\ gatLog[1].entryCache = Null /\ ~gatLog[1].cacheFresh
          /\ pc[1] # "kv_get_oauth2" => gatLog[1].reads >= 1
          /\ gatLog[1].ret =>
                /\ tokenJson[1] # NoEntry
                /\ sent[1][1] = Parse(kvOAuth2).access_token
                /\ oauth2Cache[1] # Null => Stringify(oauth2Cache[1]) = kvOAuth2

\* C23 witness: the second request served; the first refreshed the
\* credential, the second read it from the store and has sent its token.
C23_Witness ==
    /\ http.served /\ callsLeft = MaxCalls - 2
    /\ callLog[1].gats = 1 /\ gatLog[1].readFresh /\ gatLog[1].ret
    /\ issued = 1 /\ lastWriter = 1
    /\ Len(sent[1]) = 1

\* C24: while the two gets that get_body_battery joins on one client are
\* both in flight, neither has written the OAuth2 record or has a write of it
\* under way, and neither has emptied the cache they share.
C24_JoinedFetchesAreReadOnly ==
    clientOf[1] = clientOf[2] /\ Busy(1) /\ Busy(2) =>
        \A t \in Threads :
            /\ ~pendingPut[t]
            /\ gatLog[t].writes = 0
            /\ callLog[t].clears = 0

\* The call of thread t has ended on a failure: a credential is missing, the
\* consumer-pair request or the exchange was answered non-2xx, or the last
\* answer of the data API was non-2xx.
Failed(t) ==
    /\ pc[t] = "done"
    /\ \/ gatLog[t].reads >= 1 /\ tokenJson[t] = NoEntry
       \/ gatLog[t].readStale /\ kvOAuth1 = NoEntry
       \/ gatLog[t].cons >= 1 /\ ~Ok(gatLog[t].consStatus)
       \/ gatLog[t].exch >= 1 /\ ~Ok(gatLog[t].exStatus)
       \/ Len(resps[t]) >= 1 /\ ~Ok(resps[t][Len(resps[t])].status)

\* C26: a tools/call request whose client call failed is answered 200 with
\* the handler's result success = false and the message of the error thrown;
\* a result with success = true is returned only for a call that did not fail.
C26_FailuresAreReported ==
    http.served /\ http.request.rpc = "tools/call" =>
        /\ http.status \in {0, 200}
        /\ Failed(1) => result[1].kind = "error"
        /\ http.status = 200 =>
              /\ http.tool # NoToolResult
              /\ Failed(1) => /\ ~http.tool.success
                              /\ http.tool.error = Message(result[1])
              /\ http.tool.success =>
                    /\ ~Failed(1)
                    /\ http.tool.data = result[1]
                    /\ result[1].kind \in {"ok", "null"}

\* C26 witness: a tool whose refresh was rejected by the exchange has answered.
C26_Witness ==
    /\ http.served /\ http.status = 200 /\ http.request.rpc = "tools/call"
    /\ gatLog[1].exch = 1 /\ gatLog[1].exStatus = 401
    /\ http.tool = error(<<"ExchangeRejected", 401, gatLog[1].exText>>)
====
